---- MODULE Spec2Model ----
(***************************************************************************)
(* Model of api-tester.py: main() parses sys.argv, partitions total_calls  *)
(* over num_threads worker threads running fetch_data(), joins them and    *)
(* prints the report.                                                      *)
(*                                                                         *)
(* Strings are sequences of one-character strings so that startswith(),    *)
(* int() and float() are computed on the characters.  All durations and    *)
(* clock readings are held in milliseconds: the source's seconds value     *)
(* 10.0 is 10000 here, float(a) / 1000 seconds is a milliseconds, and      *)
(* (end - start) * 1000 is end - start.                                    *)
(***************************************************************************)
EXTENDS Integers, Sequences, FiniteSets, TLC

\* ------------------------------------------------------------------ bounds
MaxCalls == 2
MaxThreads == 2

\* -------------------------------------------------------- program constants
DefaultTotalCalls == 10000
DefaultNumThreads == 16
DefaultSleepTime == 0
DefaultRequestTimeOut == 10000
ConnectTimeOutFactor == 3
max_retries == 5
StatusOK == 200

\* ------------------------------------------------------------- environment
\* Time a responding server takes to answer, time of the -requestTimeOut and
\* -sleepTime values on the command lines explored, status of a failing server.
ServerLatency == 10
RequestTimeOutArg == 50
ConnectTimeOutArg == 5
SleepTimeArg == 1
StatusError == 500
\* Largest step of the wall clock between start and end of a run that made no
\* call (thread start and join overhead; 0 is below the clock's resolution).
ClockTick == 1

\* ----------------------------------------------------------------- strings
Digits == <<"0", "1", "2", "3", "4", "5", "6", "7", "8", "9">>

DigitSet == {Digits[k] : k \in 1..10}

DigitVal(c) == (CHOOSE k \in 1..10 : Digits[k] = c) - 1

RECURSIVE ParseNat(_)
ParseNat(s) ==
    IF s = <<>> THEN 0
    ELSE ParseNat(SubSeq(s, 1, Len(s) - 1)) * 10 + DigitVal(s[Len(s)])

RECURSIVE NatToStr(_)
NatToStr(n) ==
    IF n < 10 THEN <<Digits[n + 1]>>
    ELSE NatToStr(n \div 10) \o <<Digits[(n % 10) + 1]>>

Unsigned(s) == IF s # <<>> /\ s[1] \in {"-", "+"} THEN Tail(s) ELSE s

\* int(s) and float(s) raise ValueError unless s is a numeric literal; the
\* command lines explored hold integer literals and non-numeric words only.
IsNumber(s) ==
    /\ Unsigned(s) # <<>>
    /\ \A k \in 1..Len(Unsigned(s)) : Unsigned(s)[k] \in DigitSet

int(s) == IF s[1] = "-" THEN 0 - ParseNat(Unsigned(s)) ELSE ParseNat(Unsigned(s))

float(s) == int(s)

startswith(s, p) == Len(s) >= Len(p) /\ SubSeq(s, 1, Len(p)) = p

\* ------------------------------------------------------------ command line
sHttp == <<"h", "t", "t", "p">>
sUrl == <<"h", "t", "t", "p", ":", "/", "/", "h">>
sNotUrl == <<"f", "t", "p", ":", "/", "/", "h">>
sProg == <<"a", "p", "i">>
sHelp1 == <<"-", "?">>
sHelp2 == <<"-", "-", "h", "e", "l", "p">>
sWord == <<"a", "b", "c">>
sTotalCalls == <<"-", "t", "o", "t", "a", "l", "C", "a", "l", "l", "s">>
sNumThreads == <<"-", "n", "u", "m", "T", "h", "r", "e", "a", "d", "s">>
sSleepTime == <<"-", "s", "l", "e", "e", "p", "T", "i", "m", "e">>
sRequestTimeOut == <<"-", "r", "e", "q", "u", "e", "s", "t", "T", "i", "m", "e", "O", "u", "t">>
sConnectTimeOut == <<"-", "c", "o", "n", "n", "e", "c", "t", "T", "i", "m", "e", "O", "u", "t">>
sReuseConnects == <<"-", "r", "e", "u", "s", "e", "C", "o", "n", "n", "e", "c", "t", "s">>
sKeepConnectsOpen == <<"-", "k", "e", "e", "p", "C", "o", "n", "n", "e", "c", "t", "s", "O", "p", "e", "n">>

\* Options following -totalCalls c -numThreads n on the command lines explored.
OptionTails ==
    { <<>>,
      <<sKeepConnectsOpen>>,
      <<sReuseConnects>>,
      <<sRequestTimeOut, NatToStr(RequestTimeOutArg)>>,
      <<sSleepTime, NatToStr(SleepTimeArg)>>,
      <<sConnectTimeOut, NatToStr(ConnectTimeOutArg)>>,
      <<sKeepConnectsOpen, sRequestTimeOut, NatToStr(RequestTimeOutArg)>>,
      <<sKeepConnectsOpen, sRequestTimeOut, sWord>>,
      <<sRequestTimeOut>>,
      <<sSleepTime, sWord>>,
      <<sConnectTimeOut, sWord>> }

CommandLine(c, n, tail) ==
    <<sProg, sUrl, sTotalCalls, NatToStr(c), sNumThreads, NatToStr(n)>> \o tail

\* Every total and thread count within the bounds with no further option, and
\* every tail of options on a single thread.
RunCommandLines ==
    { CommandLine(c, n, <<>>) : c \in 0..MaxCalls, n \in 1..MaxThreads }
      \cup { CommandLine(c, 1, t) : c \in 0..MaxCalls, t \in OptionTails }

BadCommandLines ==
    { <<sProg>>,
      <<sProg, sHelp1>>,
      <<sProg, sHelp2>>,
      <<sProg, sNotUrl, sTotalCalls, NatToStr(1)>>,
      <<sProg, sUrl, sTotalCalls>>,
      <<sProg, sUrl, sTotalCalls, sWord>>,
      <<sProg, sUrl, sTotalCalls, NatToStr(1), sNumThreads>>,
      <<sProg, sUrl, sTotalCalls, NatToStr(1), sNumThreads, sWord>> }

CommandLines == RunCommandLines \cup BadCommandLines

\* ------------------------------------------------------------------- state
VARIABLES
    argv,               \* sys.argv
    mpc,                \* position of main()
    i,                  \* loop variable of main()'s two range loops
    total_calls, num_threads, sleep_time, request_time_out, connect_time_out,
    reuse_connects, keep_connects_open,
    response_times,     \* the shared list of elapsed times
    print_lock,         \* TRUE while the threading.Lock is held
    calls_per_thread, remainder_calls,
    threads,            \* the list of started threads, in start order
    joined,             \* how many of them the join loop has passed
    start_time,
    now,                \* the wall clock, time.time()
    stdout,             \* the lines printed so far
    pc,                 \* position of each fetch_data() thread
    num_calls, call_num, call_start_time, response, response_time,
    sleeps              \* how many times each thread has called time.sleep()

config == <<total_calls, num_threads, sleep_time, request_time_out, connect_time_out,
            reuse_connects, keep_connects_open>>

mainLocals == <<i, calls_per_thread, remainder_calls, threads, joined, start_time>>

locals == <<num_calls, call_num, call_start_time, response, response_time, sleeps>>

vars == <<argv, mpc, config, mainLocals, response_times, print_lock, now, stdout, pc, locals>>

ThreadIds == 0..(MaxThreads - 1)

args == SubSeq(argv, 3, Len(argv))

NoResponse == [kind |-> "none"]

Init ==
    /\ argv \in CommandLines
    /\ mpc = "args"
    /\ i = 0
    /\ total_calls = DefaultTotalCalls
    /\ num_threads = DefaultNumThreads
    /\ sleep_time = DefaultSleepTime
    /\ request_time_out = DefaultRequestTimeOut
    /\ connect_time_out = DefaultRequestTimeOut * ConnectTimeOutFactor
    /\ reuse_connects = FALSE
    /\ keep_connects_open = FALSE
    /\ response_times = <<>>
    /\ print_lock = FALSE
    /\ calls_per_thread = 0
    /\ remainder_calls = 0
    /\ threads = <<>>
    /\ joined = 0
    /\ start_time = 0
    /\ now = 0
    /\ stdout = <<>>
    /\ pc = [t \in ThreadIds |-> "unstarted"]
    /\ num_calls = [t \in ThreadIds |-> 0]
    /\ call_num = [t \in ThreadIds |-> 0]
    /\ call_start_time = [t \in ThreadIds |-> 0]
    /\ response = [t \in ThreadIds |-> NoResponse]
    /\ response_time = [t \in ThreadIds |-> 0]
    /\ sleeps = [t \in ThreadIds |-> 0]

workerVars == <<response_times, print_lock, now, pc, locals>>

\* ------------------------------------------------------ main(): arguments
ErrorLine(what) == [line |-> "Error", text |-> what]

UsageLine == [line |-> "Usage"]

NotEnoughArguments ==
    /\ mpc = "args"
    /\ Len(argv) < 2
    /\ stdout' = stdout \o <<ErrorLine("Not enough arguments provided."), UsageLine>>
    /\ mpc' = "return"
    /\ UNCHANGED <<argv, config, mainLocals, workerVars>>

HelpFlag ==
    /\ mpc = "args"
    /\ Len(argv) >= 2
    /\ argv[2] \in {sHelp1, sHelp2}
    /\ stdout' = stdout \o <<UsageLine>>
    /\ mpc' = "return"
    /\ UNCHANGED <<argv, config, mainLocals, workerVars>>

UrlMissing ==
    /\ mpc = "args"
    /\ Len(argv) >= 2
    /\ argv[2] \notin {sHelp1, sHelp2}
    /\ ~startswith(argv[2], sHttp)
    /\ stdout' = stdout \o <<ErrorLine("[URL] must be the first parameter."), UsageLine>>
    /\ mpc' = "return"
    /\ UNCHANGED <<argv, config, mainLocals, workerVars>>

UrlGiven ==
    /\ mpc = "args"
    /\ Len(argv) >= 2
    /\ argv[2] \notin {sHelp1, sHelp2}
    /\ startswith(argv[2], sHttp)
    /\ mpc' = "parse"
    /\ i' = 0
    /\ UNCHANGED <<argv, config, calls_per_thread, remainder_calls, threads, joined,
                   start_time, stdout, workerVars>>

\* args[i] and args[i+1] of the source are args[i + 1] and args[i + 2] here.
AtOption(name) == mpc = "parse" /\ i < Len(args) /\ args[i + 1] = name

\* int(args[i+1]) / float(args[i+1]) succeeds
HasValue == i + 2 <= Len(args) /\ IsNumber(args[i + 2])

OptionError(name) ==
    /\ AtOption(name)
    /\ ~HasValue
    /\ stdout' = stdout \o <<ErrorLine(name)>>
    /\ mpc' = "return"
    /\ UNCHANGED <<argv, config, mainLocals, workerVars>>

NextOption ==
    /\ i' = i + 2
    /\ UNCHANGED <<argv, mpc, calls_per_thread, remainder_calls, threads, joined,
                   start_time, stdout, workerVars>>

ParseTotalCalls ==
    /\ AtOption(sTotalCalls)
    /\ HasValue
    /\ total_calls' = int(args[i + 2])
    /\ NextOption
    /\ UNCHANGED <<num_threads, sleep_time, request_time_out, connect_time_out,
                   reuse_connects, keep_connects_open>>

ParseNumThreads ==
    /\ AtOption(sNumThreads)
    /\ HasValue
    /\ num_threads' = int(args[i + 2])
    /\ NextOption
    /\ UNCHANGED <<total_calls, sleep_time, request_time_out, connect_time_out,
                   reuse_connects, keep_connects_open>>

ParseSleepTime ==
    /\ AtOption(sSleepTime)
    /\ HasValue
    /\ sleep_time' = float(args[i + 2])
    /\ NextOption
    /\ UNCHANGED <<total_calls, num_threads, request_time_out, connect_time_out,
                   reuse_connects, keep_connects_open>>

ParseRequestTimeOut ==
    /\ AtOption(sRequestTimeOut)
    /\ HasValue
    /\ request_time_out' = float(args[i + 2])
    /\ NextOption
    /\ UNCHANGED <<total_calls, num_threads, sleep_time, connect_time_out,
                   reuse_connects, keep_connects_open>>

ParseConnectTimeOut ==
    /\ AtOption(sConnectTimeOut)
    /\ HasValue
    /\ connect_time_out' = float(args[i + 2])
    /\ NextOption
    /\ UNCHANGED <<total_calls, num_threads, sleep_time, request_time_out,
                   reuse_connects, keep_connects_open>>

ParseReuseConnects ==
    /\ AtOption(sReuseConnects)
    /\ reuse_connects' = TRUE
    /\ NextOption
    /\ UNCHANGED <<total_calls, num_threads, sleep_time, request_time_out,
                   connect_time_out, keep_connects_open>>

ParseKeepConnectsOpen ==
    /\ AtOption(sKeepConnectsOpen)
    /\ keep_connects_open' = TRUE
    /\ NextOption
    /\ UNCHANGED <<total_calls, num_threads, sleep_time, request_time_out,
                   connect_time_out, reuse_connects>>

OptionNames == {sTotalCalls, sNumThreads, sSleepTime, sRequestTimeOut, sConnectTimeOut,
                sReuseConnects, sKeepConnectsOpen}

\* a word at an even position that is no option name matches no branch
ParseSkip ==
    /\ mpc = "parse"
    /\ i < Len(args)
    /\ args[i + 1] \notin OptionNames
    /\ NextOption
    /\ UNCHANGED config

ParseError ==
    \E name \in {sTotalCalls, sNumThreads, sSleepTime, sRequestTimeOut, sConnectTimeOut} :
        OptionError(name)

\* ------------------------------------------------- main(): partition, start
\* Python's // and % floor; \div and % agree with them for a positive divisor.
\* the quotient rounded up instead of down
CallsPerThread_RoundedUp(total, n) == (total + n - 1) \div n

CallsPerThread(total, n) == total \div n

RemainderCalls(total, n) == total % n

\* the remainder handed to one thread too many
NumCallsThisThread_OffByOne(t) == calls_per_thread + (IF t <= remainder_calls THEN 1 ELSE 0)

NumCallsThisThread(t) == calls_per_thread + (IF t < remainder_calls THEN 1 ELSE 0)

\* lines 147-164: the two quotients, the session, then start_time = time.time()
Partition ==
    /\ mpc = "parse"
    /\ i >= Len(args)
    /\ num_threads # 0
    /\ calls_per_thread' = CallsPerThread(total_calls, num_threads)
    /\ remainder_calls' = RemainderCalls(total_calls, num_threads)
    /\ threads' = <<>>
    /\ start_time' = now
    /\ i' = 0
    /\ mpc' = "start"
    /\ UNCHANGED <<argv, config, joined, stdout, workerVars>>

\* one iteration of "for i in range(num_threads)": Thread(...).start()
StartThread ==
    /\ mpc = "start"
    /\ i < num_threads
    /\ pc' = [pc EXCEPT ![i] = "loop"]
    /\ num_calls' = [num_calls EXCEPT ![i] = NumCallsThisThread(i)]
    /\ call_num' = [call_num EXCEPT ![i] = 0]
    /\ threads' = Append(threads, i)
    /\ i' = i + 1
    /\ UNCHANGED <<argv, mpc, config, calls_per_thread, remainder_calls, joined, start_time,
                   response_times, print_lock, now, stdout, call_start_time, response,
                   response_time, sleeps>>

AllStarted ==
    /\ mpc = "start"
    /\ i >= num_threads
    /\ joined' = 0
    /\ mpc' = "join"
    /\ UNCHANGED <<argv, config, i, calls_per_thread, remainder_calls, threads, start_time,
                   stdout, workerVars>>

\* ------------------------------------------------------------ fetch_data()
\* requests reads timeout=(a, b) as (connect timeout, read timeout).
timeout_tuple == <<request_time_out, connect_time_out>>

ConnectTimeoutOf(t) == t[1]

ReadTimeoutOf(t) == t[2]

headers_struct == IF reuse_connects THEN "keep-alive" ELSE "close"

\* What the server does with one request: answer 200 or 500 with a text
\* body, answer 200 with a body that is not UTF-8, refuse the connection,
\* or accept the connection and never answer.
ServerBehaviours == {"ok", "error", "binary", "refuse", "hang"}

\* The outcome of session.get() and the time it takes.  The adapter is built
\* with max_retries: a GET that ran into the read timeout is sent again until
\* the retries are used up, a refused connection fails at once every time.
Outcome(srv) ==
    IF srv = "refuse"
      THEN [kind |-> "exception", error |-> "Connection refused", elapsed |-> 0]
    ELSE IF srv = "hang" \/ ServerLatency > ReadTimeoutOf(timeout_tuple)
      THEN [kind |-> "exception", error |-> "Read timed out",
            elapsed |-> (max_retries + 1) * ReadTimeoutOf(timeout_tuple)]
    ELSE [kind |-> "response",
          status_code |-> IF srv = "error" THEN StatusError ELSE StatusOK,
          utf8 |-> srv # "binary",
          elapsed |-> ServerLatency]

Max(a, b) == IF a >= b THEN a ELSE b

\* the lock taken around the whole call instead of around the print and append
IssueRequest_HoldingLock(t) ==
    /\ pc[t] = "loop"
    /\ call_num[t] < num_calls[t]
    /\ ~print_lock
    /\ print_lock' = TRUE
    /\ call_start_time' = [call_start_time EXCEPT ![t] = now]
    /\ pc' = [pc EXCEPT ![t] = "get"]
    /\ UNCHANGED <<argv, mpc, config, mainLocals, response_times, now, stdout,
                   num_calls, call_num, response, response_time, sleeps>>

\* the loop running one call past the quota
IssueRequest_OneTooMany(t) ==
    /\ pc[t] = "loop"
    /\ call_num[t] <= num_calls[t]
    /\ call_start_time' = [call_start_time EXCEPT ![t] = now]
    /\ pc' = [pc EXCEPT ![t] = "get"]
    /\ UNCHANGED <<argv, mpc, config, mainLocals, response_times, print_lock, now, stdout,
                   num_calls, call_num, response, response_time, sleeps>>

\* top of the for loop, lines 34-37, up to sending the request
IssueRequest(t) ==
    /\ pc[t] = "loop"
    /\ call_num[t] < num_calls[t]
    /\ call_start_time' = [call_start_time EXCEPT ![t] = now]
    /\ pc' = [pc EXCEPT ![t] = "get"]
    /\ UNCHANGED <<argv, mpc, config, mainLocals, response_times, print_lock, now, stdout,
                   num_calls, call_num, response, response_time, sleeps>>

\* range(num_calls) is exhausted: fetch_data returns
Return(t) ==
    /\ pc[t] = "loop"
    /\ call_num[t] >= num_calls[t]
    /\ pc' = [pc EXCEPT ![t] = "returned"]
    /\ UNCHANGED <<argv, mpc, config, mainLocals, response_times, print_lock, now, stdout,
                   locals>>

\* session.get() returns a response, lines 39-41.  The clock is moved to the
\* instant the call ended unless it is already past it.
GetResponse(t) ==
    /\ pc[t] = "get"
    /\ \E srv \in ServerBehaviours :
         LET o == Outcome(srv)
             call_end_time == call_start_time[t] + o.elapsed IN
           /\ o.kind = "response"
           /\ response' = [response EXCEPT ![t] =
                              [kind |-> "response", status_code |-> o.status_code,
                               utf8 |-> o.utf8]]
           /\ response_time' = [response_time EXCEPT ![t] = call_end_time - call_start_time[t]]
           /\ now' = Max(now, call_end_time)
    /\ pc' = [pc EXCEPT ![t] = "body"]
    /\ UNCHANGED <<argv, mpc, config, mainLocals, response_times, print_lock, stdout,
                   num_calls, call_num, call_start_time, sleeps>>

\* the exception of session.get() caught by nothing: the thread ends
GetFails_Uncaught(t) ==
    /\ pc[t] = "get"
    /\ \E srv \in ServerBehaviours :
         LET o == Outcome(srv) IN
           /\ o.kind = "exception"
           /\ response' = [response EXCEPT ![t] = [kind |-> "exception", error |-> o.error]]
           /\ now' = Max(now, call_start_time[t] + o.elapsed)
    /\ pc' = [pc EXCEPT ![t] = "RequestException"]
    /\ UNCHANGED <<argv, mpc, config, mainLocals, response_times, print_lock, stdout,
                   num_calls, call_num, call_start_time, response_time, sleeps>>

\* session.get() raises a RequestException, lines 59-61
GetFails(t) ==
    /\ pc[t] = "get"
    /\ \E srv \in ServerBehaviours :
         LET o == Outcome(srv)
             error_end_time == call_start_time[t] + o.elapsed IN
           /\ o.kind = "exception"
           /\ response' = [response EXCEPT ![t] = [kind |-> "exception", error |-> o.error]]
           /\ response_time' = [response_time EXCEPT ![t] = error_end_time - call_start_time[t]]
           /\ now' = Max(now, error_end_time)
    /\ pc' = [pc EXCEPT ![t] = "lock"]
    /\ UNCHANGED <<argv, mpc, config, mainLocals, response_times, print_lock, stdout,
                   num_calls, call_num, call_start_time, sleeps>>

\* lines 43-48 with keep_connects_open set: the body is not touched
KeepBody(t) ==
    /\ pc[t] = "body"
    /\ keep_connects_open
    /\ pc' = [pc EXCEPT ![t] = "lock"]
    /\ UNCHANGED <<argv, mpc, config, mainLocals, response_times, print_lock, now, stdout,
                   locals>>

\* lines 43-48: response.content.decode("utf-8") is written to os.devnull
DrainBody(t) ==
    /\ pc[t] = "body"
    /\ ~keep_connects_open
    /\ response[t].utf8
    /\ pc' = [pc EXCEPT ![t] = "lock"]
    /\ UNCHANGED <<argv, mpc, config, mainLocals, response_times, print_lock, now, stdout,
                   locals>>

\* line 47 on a body that is not UTF-8: decode raises UnicodeDecodeError, which
\* is no RequestException; nothing catches it and the thread ends
DecodeRaises(t) ==
    /\ pc[t] = "body"
    /\ ~keep_connects_open
    /\ ~response[t].utf8
    /\ pc' = [pc EXCEPT ![t] = "UnicodeDecodeError"]
    /\ UNCHANGED <<argv, mpc, config, mainLocals, response_times, print_lock, now, stdout,
                   locals>>

\* "with print_lock:" entered, line 50 or 62
AcquireLock(t) ==
    /\ pc[t] = "lock"
    /\ ~print_lock
    /\ print_lock' = TRUE
    /\ pc' = [pc EXCEPT ![t] = "print"]
    /\ UNCHANGED <<argv, mpc, config, mainLocals, response_times, now, stdout, locals>>

ResultLine(t) ==
    IF response[t].kind = "exception"
      THEN [line |-> "Request failed", thread_id |-> t, call_num |-> call_num[t],
            error |-> response[t].error, response_time |-> response_time[t]]
    ELSE IF response[t].status_code = StatusOK
      THEN [line |-> "Success", thread_id |-> t, call_num |-> call_num[t],
            status_code |-> response[t].status_code, response_time |-> response_time[t]]
    ELSE [line |-> "Failed with status code", thread_id |-> t, call_num |-> call_num[t],
          status_code |-> response[t].status_code, response_time |-> response_time[t]]

\* the print of lines 51-57 or 63-64
PrintResult(t) ==
    /\ pc[t] = "print"
    /\ stdout' = Append(stdout, ResultLine(t))
    /\ pc' = [pc EXCEPT ![t] = "append"]
    /\ UNCHANGED <<argv, mpc, config, mainLocals, response_times, print_lock, now, locals>>

\* the elapsed time kept for the successful calls only
AppendResult_OnlySuccess(t) ==
    /\ pc[t] = "append"
    /\ response_times' = IF response[t].kind = "response" /\ response[t].status_code = StatusOK
                            THEN Append(response_times, response_time[t])
                            ELSE response_times
    /\ print_lock' = FALSE
    /\ pc' = [pc EXCEPT ![t] = "sleep"]
    /\ UNCHANGED <<argv, mpc, config, mainLocals, now, stdout, locals>>

\* response_times.append(response_time), line 58 or 65, and the end of the
\* with block
AppendResult(t) ==
    /\ pc[t] = "append"
    /\ response_times' = Append(response_times, response_time[t])
    /\ print_lock' = FALSE
    /\ pc' = [pc EXCEPT ![t] = "sleep"]
    /\ UNCHANGED <<argv, mpc, config, mainLocals, now, stdout, locals>>

\* time.sleep(sleep_time), line 66, and the step of the for loop
Sleep(t) ==
    /\ pc[t] = "sleep"
    /\ now' = now + sleep_time
    /\ sleeps' = [sleeps EXCEPT ![t] = sleeps[t] + 1]
    /\ call_num' = [call_num EXCEPT ![t] = call_num[t] + 1]
    /\ pc' = [pc EXCEPT ![t] = "loop"]
    /\ UNCHANGED <<argv, mpc, config, mainLocals, response_times, print_lock, stdout,
                   num_calls, call_start_time, response, response_time>>

\* ------------------------------------------------------ main(): join, report
\* a thread is over when fetch_data returned or an exception ended it
Terminated(t) == pc[t] \in {"returned", "UnicodeDecodeError"}

\* thread.join() of the next thread of the list returns
Join ==
    /\ mpc = "join"
    /\ joined < Len(threads)
    /\ Terminated(threads[joined + 1])
    /\ joined' = joined + 1
    /\ UNCHANGED <<argv, mpc, config, i, calls_per_thread, remainder_calls, threads,
                   start_time, stdout, workerVars>>

RECURSIVE sum(_)
sum(s) == IF s = <<>> THEN 0 ELSE s[1] + sum(Tail(s))

\* lines 188-191 (floats; the quotient is truncated here)
AverageResponseTime(times) == IF times # <<>> THEN sum(times) \div Len(times) ELSE 0

\* line 186, total_time in milliseconds
RequestsPerSecond(total, total_time) == (total * 1000) \div total_time

ReportLine(total_time) ==
    [line |-> "Report", num_threads |-> num_threads, total_time |-> total_time,
     average_response_time |-> AverageResponseTime(response_times),
     requests_per_second |-> RequestsPerSecond(total_calls, total_time)]

\* lines 183-200 with total_time # 0
Report ==
    /\ mpc = "join"
    /\ joined >= Len(threads)
    /\ \E dt \in {0, ClockTick} :
         /\ now' = now + dt
         /\ now' - start_time # 0
         /\ stdout' = Append(stdout, ReportLine(now' - start_time))
    /\ mpc' = "return"
    /\ UNCHANGED <<argv, config, mainLocals, response_times, print_lock, pc, locals>>

\* line 186 with total_time = 0: ZeroDivisionError ends main() before
\* anything of the report is printed
ReportRaises ==
    /\ mpc = "join"
    /\ joined >= Len(threads)
    /\ \E dt \in {0, ClockTick} :
         /\ now' = now + dt
         /\ now' - start_time = 0
    /\ mpc' = "ZeroDivisionError"
    /\ UNCHANGED <<argv, config, mainLocals, response_times, print_lock, stdout, pc, locals>>

\* ------------------------------------------------------------ specification
Main ==
    \/ NotEnoughArguments
    \/ HelpFlag
    \/ UrlMissing
    \/ UrlGiven
    \/ ParseTotalCalls
    \/ ParseNumThreads
    \/ ParseSleepTime
    \/ ParseRequestTimeOut
    \/ ParseConnectTimeOut
    \/ ParseReuseConnects
    \/ ParseKeepConnectsOpen
    \/ ParseSkip
    \/ ParseError
    \/ Partition
    \/ StartThread
    \/ AllStarted
    \/ Join
    \/ Report
    \/ ReportRaises

Worker(t) ==
    \/ IssueRequest(t)
    \/ Return(t)
    \/ GetResponse(t)
    \/ GetFails(t)
    \/ KeepBody(t)
    \/ DrainBody(t)
    \/ DecodeRaises(t)
    \/ AcquireLock(t)
    \/ PrintResult(t)
    \/ AppendResult(t)
    \/ Sleep(t)

Next == Main \/ \E t \in ThreadIds : Worker(t)

Spec == Init /\ [][Next]_vars

\* The threads are scheduled fairly and every call returns or fails.
FairSpec == Spec /\ WF_vars(Main) /\ \A t \in ThreadIds : WF_vars(Worker(t))

\* ------------------------------------------- the partition on larger inputs
MaxPartCalls == 9
MaxPartThreads == 4

\* main() after the argument loop on "-totalCalls c -numThreads n"
PartitionInit ==
    /\ \E c \in 0..MaxPartCalls, n \in 1..MaxPartThreads :
         /\ argv = CommandLine(c, n, <<>>)
         /\ total_calls = c
         /\ num_threads = n
    /\ mpc = "parse"
    /\ i = Len(args)
    /\ sleep_time = DefaultSleepTime
    /\ request_time_out = DefaultRequestTimeOut
    /\ connect_time_out = DefaultRequestTimeOut * ConnectTimeOutFactor
    /\ reuse_connects = FALSE
    /\ keep_connects_open = FALSE
    /\ response_times = <<>>
    /\ print_lock = FALSE
    /\ calls_per_thread = 0
    /\ remainder_calls = 0
    /\ threads = <<>>
    /\ joined = 0
    /\ start_time = 0
    /\ now = 0
    /\ stdout = <<>>
    /\ pc = [t \in 0..(MaxPartThreads - 1) |-> "unstarted"]
    /\ num_calls = [t \in 0..(MaxPartThreads - 1) |-> 0]
    /\ call_num = [t \in 0..(MaxPartThreads - 1) |-> 0]
    /\ call_start_time = [t \in 0..(MaxPartThreads - 1) |-> 0]
    /\ response = [t \in 0..(MaxPartThreads - 1) |-> NoResponse]
    /\ response_time = [t \in 0..(MaxPartThreads - 1) |-> 0]
    /\ sleeps = [t \in 0..(MaxPartThreads - 1) |-> 0]

PartitionNext == Partition \/ StartThread \/ AllStarted

PartitionSpec == PartitionInit /\ [][PartitionNext]_vars

\* ------------------------------------------------------------------ claims
Started(t) == pc[t] # "unstarted"

\* the join loop is over: the state in which lines 183-196 compute the report
ReportComputed == mpc = "join" /\ joined >= Len(threads)

ReportLines == {k \in DOMAIN stdout : stdout[k].line = "Report"}

ResultLineKinds == {"Success", "Failed with status code", "Request failed"}

\* the result lines printed for call k of thread t
LinesOf(t, k) ==
    {n \in DOMAIN stdout :
        /\ stdout[n].line \in ResultLineKinds
        /\ stdout[n].thread_id = t
        /\ stdout[n].call_num = k}

\* the run was started and main() is over
RunOver == mpc \in {"return", "ZeroDivisionError"} /\ threads # <<>>

\* C1: when the final report is computed, response_times holds exactly
\* total_calls entries, one for every assigned call and none twice.
C1_EveryCallRecorded ==
    ReportComputed =>
        /\ Len(response_times) = total_calls
        /\ \A t \in DOMAIN pc : \A k \in 0..(num_calls[t] - 1) :
               Started(t) => Cardinality(LinesOf(t, k)) = 1

RECURSIVE QuotaSum(_)
QuotaSum(n) == IF n = 0 THEN 0 ELSE num_calls[n - 1] + QuotaSum(n - 1)

\* C2: once main() has started all the threads, the quotas num_calls of
\* threads 0..num_threads-1 sum to exactly total_calls.
C2_QuotasSumToTotal == mpc = "join" => QuotaSum(num_threads) = total_calls

C2_Witness ==
    /\ mpc = "join"
    /\ num_threads >= 3
    /\ total_calls > num_threads
    /\ total_calls % num_threads # 0

\* C3: every started thread t has the quota total_calls \div num_threads, plus
\* one when t < total_calls % num_threads; no quota is negative and no two
\* quotas differ by more than 1.
C3_QuotaOfEachThread ==
    \A t \in DOMAIN pc :
        Started(t) =>
            /\ num_calls[t] = (total_calls \div num_threads)
                                + (IF t < total_calls % num_threads THEN 1 ELSE 0)
            /\ num_calls[t] >= 0
            /\ \A u \in DOMAIN pc :
                   Started(u) => /\ num_calls[t] - num_calls[u] <= 1
                                 /\ num_calls[u] - num_calls[t] <= 1

C3_Witness ==
    /\ mpc = "join"
    /\ \E t, u \in DOMAIN pc :
           /\ t < u
           /\ Started(u)
           /\ num_calls[u] >= 1
           /\ num_calls[t] = num_calls[u] + 1

\* C4: the report is printed at most once, and it is computed only when every
\* thread has run its loop to the end, each call of its quota executed and
\* recorded.
C4_ReportOnlyAfterAllFinished ==
    /\ Cardinality(ReportLines) <= 1
    /\ (ReportComputed \/ ReportLines # {}) =>
           \A t \in DOMAIN pc :
               t < num_threads => pc[t] = "returned" /\ call_num[t] = num_calls[t]

\* the positions a thread passes from the caught exception to the next call
AfterFailure == [lock |-> "print", print |-> "append", append |-> "sleep", sleep |-> "loop"]

\* C5: a call that fails in transport is caught: its elapsed time runs from
\* the call's own start to an instant of the clock, one "Request failed" line
\* with that time is printed and that time is appended once, and the thread
\* goes on to its next call; no step of this path ends the thread.
C5_TransportFailureRecorded ==
    [][\A t \in ThreadIds :
         /\ (pc[t] = "get" /\ pc'[t] # "get" /\ response'[t].kind = "exception") =>
                /\ pc'[t] = "lock"
                /\ response_time'[t] >= 0
                /\ call_start_time'[t] = call_start_time[t]
                /\ call_start_time[t] + response_time'[t] <= now'
         /\ (pc[t] \in DOMAIN AfterFailure /\ response[t].kind = "exception") =>
                /\ pc'[t] \in {pc[t], AfterFailure[pc[t]]}
                /\ response_time'[t] = response_time[t]
                /\ (pc[t] = "print" /\ pc'[t] # "print") =>
                       stdout' = Append(stdout,
                                    [line |-> "Request failed", thread_id |-> t,
                                     call_num |-> call_num[t],
                                     error |-> response[t].error,
                                     response_time |-> response_time[t]])
                /\ (pc[t] = "append" /\ pc'[t] # "append") =>
                       response_times' = Append(response_times, response_time[t])
                /\ (pc[t] # "append" /\ pc'[t] # pc[t]) =>
                       response_times' = response_times
                /\ (pc[t] = "sleep" /\ pc'[t] # "sleep") =>
                       call_num'[t] = call_num[t] + 1
                /\ (pc[t] # "sleep") => call_num'[t] = call_num[t]
      ]_vars

\* a thread whose first call failed in transport has it recorded and is in
\* its second call
C5_Witness ==
    \E t \in ThreadIds :
        /\ call_num[t] = 1
        /\ pc[t] = "get"
        /\ Len(response_times) = 1
        /\ \E n \in LinesOf(t, 0) : stdout[n].line = "Request failed"

\* C6: a thread that received a response, whatever its status and body and
\* whatever keep_connects_open, records it and goes on: no thread is ended
\* between the response and its entry.
C6_EveryResponseRecorded ==
    \A t \in ThreadIds :
        response[t].kind = "response" =>
            pc[t] \in {"loop", "get", "body", "lock", "print", "append", "sleep", "returned"}

ReportPrinted == mpc = "return" /\ ReportLines # {}

\* C7: a started run eventually prints the report with every thread having
\* executed its whole quota.
C7_RunCompletes ==
    (mpc = "start") ~>
        (ReportPrinted /\ \A t \in ThreadIds :
                              t < num_threads =>
                                  pc[t] = "returned" /\ call_num[t] = num_calls[t])

\* C8: with -requestTimeOut given, a call to a server that never answers is
\* recorded as failed in transport after an elapsed time of the request
\* timeout.
C8_HangTakesRequestTimeOut ==
    request_time_out = RequestTimeOutArg =>
        \A n \in DOMAIN stdout :
            (stdout[n].line = "Request failed" /\ stdout[n].error = "Read timed out") =>
                stdout[n].response_time = request_time_out

\* C9: a run with total_calls = 0 records nothing, raises no division by
\* zero, and ends with a report whose average is 0.
C9_ZeroCallsReport ==
    (RunOver /\ total_calls = 0) =>
        /\ mpc # "ZeroDivisionError"
        /\ response_times = <<>>
        /\ \E n \in ReportLines : stdout[n].average_response_time = 0

NumericOptions == {sTotalCalls, sNumThreads, sSleepTime, sRequestTimeOut, sConnectTimeOut}

HelpFirst == Len(argv) >= 2 /\ argv[2] \in {sHelp1, sHelp2}

\* a command line with no argument, with a first argument that is no URL, or
\* with a numeric option whose value is missing or no integer
ConfigurationError ==
    \/ Len(argv) < 2
    \/ ~HelpFirst /\ ~startswith(argv[2], sHttp)
    \/ ~HelpFirst /\ \E k \in 1..Len(args) :
           /\ args[k] \in NumericOptions
           /\ (k = Len(args) \/ ~IsNumber(args[k + 1]))

\* C10: on a configuration error no thread is ever started and main() ends
\* with an error line; on a help flag no thread is started and the usage is
\* printed.
C10_ConfigErrorNeverRuns ==
    /\ ConfigurationError =>
           /\ threads = <<>>
           /\ \A t \in ThreadIds : pc[t] = "unstarted"
           /\ mpc \in {"args", "parse", "return"}
           /\ mpc = "return" => \E n \in DOMAIN stdout : stdout[n].line = "Error"
    /\ HelpFirst =>
           /\ threads = <<>>
           /\ \A t \in ThreadIds : pc[t] = "unstarted"
           /\ mpc = "return" => \E n \in DOMAIN stdout : stdout[n].line = "Usage"

ConnectTimeOutGiven == \E k \in 1..Len(args) : args[k] = sConnectTimeOut

\* C11: when -connectTimeOut is not on the command line, the connect_time_out
\* the threads are started with is 3 times the request_time_out they are
\* started with.
C11_DefaultConnectTimeOut ==
    ((\E t \in ThreadIds : Started(t)) /\ ~ConnectTimeOutGiven) =>
        connect_time_out = ConnectTimeOutFactor * request_time_out

\* the threads inside "with print_lock:"
InSection == {t \in ThreadIds : pc[t] \in {"print", "append"}}

\* a call of thread t is over when the thread went on to a later call or
\* returned, when its entry is appended, or when an exception ended the thread
\* in it
CallOver(t, k) ==
    \/ k < call_num[t]
    \/ k = call_num[t] /\ pc[t] \in {"sleep", "UnicodeDecodeError"}

\* the result lines printed so far
ResultLines == {n \in DOMAIN stdout : stdout[n].line \in ResultLineKinds}

\* C12: at most one thread is inside the section that prints and appends; a
\* thread that has printed and not yet appended owns the last line, and every
\* other line has its entry; and every call that is over has exactly one line.
C12_PrintAndAppendTogether ==
    /\ Cardinality(InSection) <= 1
    /\ Cardinality(ResultLines) =
           Len(response_times) + Cardinality({t \in ThreadIds : pc[t] = "append"})
    /\ \A t \in ThreadIds :
           pc[t] = "append" => Len(stdout) \in LinesOf(t, call_num[t])
    /\ \A t \in ThreadIds : \A k \in 0..MaxCalls :
           CallOver(t, k) => Cardinality(LinesOf(t, k)) = 1

\* the lock and the pairing of C12 without its last part: they hold
C12_MutualExclusion ==
    /\ Cardinality(InSection) <= 1
    /\ Cardinality(ResultLines) =
           Len(response_times) + Cardinality({t \in ThreadIds : pc[t] = "append"})
    /\ \A t \in ThreadIds :
           pc[t] = "append" => Len(stdout) \in LinesOf(t, call_num[t])

\* the positions in which a thread issues a request, waits for the response or
\* the timeout, handles the body, sleeps, or is between two calls
OutsideSection == {"unstarted", "loop", "get", "body", "lock", "sleep", "returned",
                   "UnicodeDecodeError"}

\* C13: print_lock is held only by a thread that is printing or appending: the
\* lock is taken exactly when one thread is inside the section, so whenever
\* every started thread is issuing, waiting, draining, sleeping or over the lock
\* is free, and a thread waiting for the lock waits for one that is printing or
\* appending.
C13_LockOnlyForPrintAndAppend ==
    /\ print_lock <=> InSection # {}
    /\ (\A t \in ThreadIds : pc[t] \in OutsideSection) => ~print_lock
    /\ \A t \in ThreadIds :
           (pc[t] = "lock" /\ print_lock) =>
               \E u \in ThreadIds : u # t /\ pc[u] \in {"print", "append"}

\* one thread is waiting for a response while another holds the lock and a
\* second entry is being recorded
C13_Witness ==
    \E t, u \in ThreadIds :
        /\ pc[t] = "get"
        /\ pc[u] = "append"
        /\ print_lock

\* C14: a thread that returned after a quota of q >= 1 calls has slept exactly
\* q - 1 times, and no thread sleeps after its last call.
C14_SleepOnlyBetweenCalls ==
    \A t \in ThreadIds :
        /\ (pc[t] = "returned" /\ num_calls[t] >= 1) => sleeps[t] = num_calls[t] - 1
        /\ sleeps[t] <= Max(num_calls[t] - 1, 0)

\* the threads that a run with more threads than calls leaves without a call
Idle(t) == t < num_threads /\ t >= total_calls /\ num_threads > total_calls

\* C15: with num_threads > total_calls every thread t >= total_calls is
\* started with a quota of 0; it issues no request, prints and appends nothing,
\* takes no lock and never sleeps: it is at the top of its loop or returned.
\* main() joins all num_threads threads and ends with the report.
C15_ZeroQuotaThreadsIdle ==
    /\ \A t \in ThreadIds :
           (Idle(t) /\ Started(t)) =>
               /\ num_calls[t] = 0
               /\ pc[t] \in {"loop", "returned"}
               /\ call_num[t] = 0
               /\ sleeps[t] = 0
               /\ \A n \in ResultLines : stdout[n].thread_id # t
    /\ (num_threads > total_calls /\ ReportComputed) =>
           /\ joined = num_threads
           /\ \A t \in ThreadIds : Idle(t) => pc[t] = "returned"
    /\ (num_threads > total_calls /\ RunOver) =>
           /\ joined = num_threads
           /\ mpc = "return"
           /\ Cardinality(ReportLines) = 1

\* the zero-quota part of C15 without the report
C15_IdleThreadsOnly ==
    /\ \A t \in ThreadIds :
           (Idle(t) /\ Started(t)) =>
               /\ num_calls[t] = 0
               /\ pc[t] \in {"loop", "returned"}
               /\ call_num[t] = 0
               /\ sleeps[t] = 0
               /\ \A n \in ResultLines : stdout[n].thread_id # t
    /\ (num_threads > total_calls /\ ReportComputed) =>
           /\ joined = num_threads
           /\ \A t \in ThreadIds : Idle(t) => pc[t] = "returned"

\* the outcome of a call with the given answer of session.get()
Classify(r) ==
    IF r.kind = "exception" THEN "Request failed"
    ELSE IF r.status_code = 200 THEN "Success"
    ELSE "Failed with status code"

\* the call thread t is in has its outcome: printed, or ended by an exception
Outcomed(t) == pc[t] \in {"append", "sleep", "UnicodeDecodeError"}

\* C16: every call whose outcome is there has exactly one line: Success when
\* a response with status 200 was received, Failed with status code when a
\* response with another status was received, Request failed when
\* session.get() raised; a response with status 500 is never a Request failed.
C16_OneOutcomePerCall ==
    \A t \in ThreadIds :
        Outcomed(t) =>
            /\ Cardinality(LinesOf(t, call_num[t])) = 1
            /\ \A n \in LinesOf(t, call_num[t]) : stdout[n].line = Classify(response[t])

\* the same for the calls that were printed: it holds
C16_PrintedOutcome ==
    \A t \in ThreadIds :
        pc[t] \in {"append", "sleep"} =>
            /\ Cardinality(LinesOf(t, call_num[t])) = 1
            /\ \A n \in LinesOf(t, call_num[t]) : stdout[n].line = Classify(response[t])

\* C17: computing the report never raises ZeroDivisionError; a run whose end
\* and start readings of the clock are equal ends with a report whose
\* throughput is total_calls.
C17_ZeroTotalTimeGuarded ==
    /\ mpc # "ZeroDivisionError"
    /\ (RunOver /\ now = start_time) =>
           \E n \in ReportLines : stdout[n].requests_per_second = total_calls

\* thread t is inside session.get() or handling the response body
InFlight(t) == pc[t] \in {"get", "body"}

\* C18: a thread has a call in flight only when each of its earlier calls has
\* its line printed and its entry appended: the n-th entry of response_times
\* is the time of the n-th result line, and while call k of a thread is in
\* flight its calls 0..k-1 have one line each, all with their entries.  The
\* lines, and so the entries, of one thread are in increasing call_num order.
C18_OwnCallsInOrder ==
    /\ \A n \in ResultLines :
           n <= Len(response_times) => response_times[n] = stdout[n].response_time
    /\ \A t \in ThreadIds :
           InFlight(t) =>
               /\ \A k \in 0..(call_num[t] - 1) : Cardinality(LinesOf(t, k)) = 1
               /\ LinesOf(t, call_num[t]) = {}
               /\ \A n \in ResultLines :
                      stdout[n].thread_id = t => n <= Len(response_times)
    /\ \A m, n \in ResultLines :
           (m < n /\ stdout[m].thread_id = stdout[n].thread_id) =>
               stdout[m].call_num < stdout[n].call_num

\* a thread is in its second call and the last entry of response_times is the
\* one of its first call
C18_Witness ==
    \E t \in ThreadIds :
        /\ InFlight(t)
        /\ call_num[t] = 1
        /\ Len(response_times) >= 1
        /\ \E n \in LinesOf(t, 0) : n = Len(response_times)

\* thread t has entered the body of its for loop for the current call_num
CallStarted(t) ==
    pc[t] \in {"get", "body", "lock", "print", "append", "sleep", "UnicodeDecodeError"}

\* the calls thread t has started so far
StartedBy(t) == call_num[t] + (IF CallStarted(t) THEN 1 ELSE 0)

RECURSIVE StartedUpTo(_)
StartedUpTo(n) == IF n = 0 THEN 0 ELSE StartedBy(n - 1) + StartedUpTo(n - 1)

\* the calls started so far by all the threads
CallsStarted == StartedUpTo(MaxThreads)

\* the result lines of thread t
LinesOfThread(t) == {n \in ResultLines : stdout[n].thread_id = t}

\* the list only grows at its end
AppendOnly ==
    \/ response_times' = response_times
    \/ /\ Len(response_times') = Len(response_times) + 1
       /\ SubSeq(response_times', 1, Len(response_times)) = response_times

\* the list is never longer than the calls started, nor those than total_calls,
\* and a thread contributes at most its quota
WithinQuota ==
    /\ Len(response_times) <= CallsStarted
    /\ CallsStarted <= total_calls
    /\ \A t \in ThreadIds :
           /\ StartedBy(t) <= num_calls[t]
           /\ Cardinality(LinesOfThread(t)) <= StartedBy(t)

\* C19: response_times only grows, one entry at a time and at its end, its
\* entries are never changed or removed, it is never longer than the number of
\* calls started, which never exceeds total_calls, and a thread never starts or
\* records more calls than its quota.
C19_AppendOnlyWithinQuota == [][AppendOnly]_vars /\ []WithinQuota

\* every call of a run of two calls has been started and recorded
C19_Witness ==
    /\ total_calls = MaxCalls
    /\ CallsStarted = total_calls
    /\ Len(response_times) = total_calls

Flags == {sReuseConnects, sKeepConnectsOpen}

\* the positions of s, from k on, that hold an option name when s is read as
\* value options followed by their value and flags standing alone
RECURSIVE OptionPositions(_, _)
OptionPositions(s, k) ==
    IF k > Len(s) THEN {}
    ELSE IF s[k] \in NumericOptions THEN {k} \cup OptionPositions(s, k + 2)
    ELSE {k} \cup OptionPositions(s, k + 1)

\* s is a sequence of recognised options: each value option followed by an
\* integer, each flag alone
WellFormed(s) ==
    \A k \in OptionPositions(s, 1) :
        \/ s[k] \in Flags
        \/ s[k] \in NumericOptions /\ k < Len(s) /\ IsNumber(s[k + 1])

\* the value given with the last occurrence of the value option name
Given(name) ==
    LET ks == {k \in OptionPositions(args, 1) : args[k] = name}
        last == CHOOSE k \in ks : \A j \in ks : j <= k
    IN  args[last + 1]

IsGiven(name) == \E k \in OptionPositions(args, 1) : args[k] = name

\* the argument loop is over and the run goes on with the configuration
Configured == mpc = "start" \/ threads # <<>>

\* C20: once the argument loop is over on a well-formed sequence of options,
\* every value option given has its value in the configuration and every flag
\* given is set.
C20_EveryOptionApplied ==
    (Configured /\ WellFormed(args)) =>
        /\ IsGiven(sTotalCalls) => total_calls = int(Given(sTotalCalls))
        /\ IsGiven(sNumThreads) => num_threads = int(Given(sNumThreads))
        /\ IsGiven(sSleepTime) => sleep_time = float(Given(sSleepTime))
        /\ IsGiven(sRequestTimeOut) => request_time_out = float(Given(sRequestTimeOut))
        /\ IsGiven(sConnectTimeOut) => connect_time_out = float(Given(sConnectTimeOut))
        /\ IsGiven(sReuseConnects) => reuse_connects
        /\ IsGiven(sKeepConnectsOpen) => keep_connects_open

\* the same for the command lines on which every flag comes after the value
\* options
FlagsLast ==
    \A j, k \in OptionPositions(args, 1) :
        (args[j] \in Flags /\ args[k] \in NumericOptions) => k < j

C20_AppliedWhenFlagsLast ==
    (Configured /\ WellFormed(args)
         /\ FlagsLast) =>
        /\ IsGiven(sTotalCalls) => total_calls = int(Given(sTotalCalls))
        /\ IsGiven(sNumThreads) => num_threads = int(Given(sNumThreads))
        /\ IsGiven(sSleepTime) => sleep_time = float(Given(sSleepTime))
        /\ IsGiven(sRequestTimeOut) => request_time_out = float(Given(sRequestTimeOut))
        /\ IsGiven(sConnectTimeOut) => connect_time_out = float(Given(sConnectTimeOut))
        /\ IsGiven(sReuseConnects) => reuse_connects
        /\ IsGiven(sKeepConnectsOpen) => keep_connects_open

====
